---- MODULE Spec2Model ----
(***************************************************************************)
(* A model of the DACSynthformer data-pipeline scripts:                    *)
(*   scripts/dac_encode.py           device selection, output naming       *)
(*   scripts/rename_files.py         flattening of *.dac subdirectories    *)
(*   scripts/rename_dac_files.py     regex renaming of *.dac files         *)
(*   scripts/reorganize_dac_files.py spreadsheet-driven copy / move        *)
(*   split_excel_data.py             per-class train / validation split    *)
(*   wav-extract.py                  random fixed-length segment of a WAV  *)
(* Each script is a standalone entry point, so each has its own            *)
(* specification over its own variables; the variables of the other        *)
(* scripts stay at their idle values.                                      *)
(*                                                                         *)
(* File names are sequences of one-character strings, so that suffixing,   *)
(* stems, prefixes and pattern matching are computed character by          *)
(* character as the code does.  Floating-point inputs are dyadic rationals *)
(* n / 2^k, for which the IEEE-754 products and comparisons of the code    *)
(* are exact.                                                              *)
(***************************************************************************)
EXTENDS Integers, Sequences, FiniteSets, TLC

VARIABLES
    \* ---- format_param_value (dac_encode.py) ----
    fmt_pc, value, fmt_class, formatted, fmt_filename,
    \* ---- dac_encode.py main, directory mode ----
    enc_pc, args_param1, randomize_param1, class_name, audio_files, calls,
    \* ---- dac_encode.py get_available_device ----
    dev_pc, requested_device, mps_available, mps_works, cuda_available,
    cuda_works, probes, device,
    \* ---- split_excel_data.py create_train_val_split ----
    split_pc, df, samples_per_class, train_ratio, cls_i, sampled, train_samples,
    val_samples, train_df, val_df,
    \* ---- rename_files.py main (flatten) ----
    flat_pc, base_dir, base_dir0, todo, subdir, files, moves,
    \* ---- reorganize_dac_files.py main ----
    reorg_pc, train_readable, val_readable, train_files, val_files, source_exists,
    source_dir, source_dir0, train_dir, val_dir, move, pos, log,
    \* ---- rename_dac_files.py rename_dac_files, called twice ----
    ren_pc, directory, directory0, dac_files, after_first, renames,
    \* ---- wav-extract.py extract_random_segment ----
    wav_pc, y, sr, segment_duration, total_duration, start_time, start_sample,
    end_sample, written

fmtVars == <<fmt_pc, value, fmt_class, formatted, fmt_filename>>
encVars == <<enc_pc, args_param1, randomize_param1, class_name, audio_files, calls>>
devVars == <<dev_pc, requested_device, mps_available, mps_works, cuda_available,
             cuda_works, probes, device>>
splitVars == <<split_pc, df, samples_per_class, train_ratio, cls_i, sampled, train_samples,
               val_samples, train_df, val_df>>
flatVars == <<flat_pc, base_dir, base_dir0, todo, subdir, files, moves>>
reorgVars == <<reorg_pc, train_readable, val_readable, train_files, val_files,
               source_exists, source_dir, source_dir0, train_dir, val_dir, move, pos, log>>
renVars == <<ren_pc, directory, directory0, dac_files, after_first, renames>>
wavVars == <<wav_pc, y, sr, segment_duration, total_duration, start_time, start_sample,
             end_sample, written>>
vars == <<fmtVars, encVars, devVars, splitVars, flatVars, reorgVars, renVars, wavVars>>

\* what each entry point leaves alone: the variables of the other scripts
notFmt == <<encVars, devVars, splitVars, flatVars,
    reorgVars, renVars, wavVars>>
notEnc == <<fmtVars, devVars, splitVars, flatVars,
    reorgVars, renVars, wavVars>>
notDev == <<fmtVars, encVars, splitVars, flatVars,
    reorgVars, renVars, wavVars>>
notSplit == <<fmtVars, encVars, devVars, flatVars,
    reorgVars, renVars, wavVars>>
notFlat == <<fmtVars, encVars, devVars, splitVars,
    reorgVars, renVars, wavVars>>
notReorg == <<fmtVars, encVars, devVars, splitVars,
    flatVars, renVars, wavVars>>
notRen == <<fmtVars, encVars, devVars, splitVars,
    flatVars, reorgVars, wavVars>>
notWav == <<fmtVars, encVars, devVars, splitVars,
    flatVars, reorgVars, renVars>>

----------------------------------------------------------------------------
(* Generic helpers *)

Min(a, b) == IF a < b THEN a ELSE b

Max(a, b) == IF a > b THEN a ELSE b

Abs(a) == IF a < 0 THEN -a ELSE a

\* str(d) for one decimal digit
Digit(d) == <<"0", "1", "2", "3", "4", "5", "6", "7", "8", "9">>[d + 1]

\* str(n) for a natural number
RECURSIVE DecDigits(_)
DecDigits(n) == IF n < 10 THEN <<Digit(n)>> ELSE DecDigits(n \div 10) \o <<Digit(n % 10)>>

IsDigit(c) == c \in {"0", "1", "2", "3", "4", "5", "6", "7", "8", "9"}

DigitVal(c) == CHOOSE d \in 0..9 : Digit(d) = c

\* the Python slice s[:n]
Take(s, n) == SubSeq(s, 1, Min(n, Len(s)))

\* the Python slice s[n:]
Drop(s, n) == SubSeq(s, n + 1, Len(s))

StartsWith(s, p) == Len(s) >= Len(p) /\ SubSeq(s, 1, Len(p)) = p

EndsWith(s, p) == Len(s) >= Len(p) /\ SubSeq(s, Len(s) - Len(p) + 1, Len(s)) = p

RECURSIVE Repeat(_, _)
Repeat(c, n) == IF n <= 0 THEN <<>> ELSE <<c>> \o Repeat(c, n - 1)

----------------------------------------------------------------------------
(* format_param_value and generate_output_filename, dac_encode.py:53-69 *)

\* Number of fractional bits of the parameter values: a value is n / ParamDen.
ParamBits == 8

ParamDen == 2 ^ ParamBits

\* round-half-to-even of num / den, as the correctly rounded "%.2f" conversion
RoundHalfEven(num, den) ==
    LET q == num \div den
        r == num % den
    IN  IF 2 * r > den THEN q + 1
        ELSE IF 2 * r < den THEN q
        ELSE IF q % 2 = 0 THEN q ELSE q + 1

\* f"{v:05.2f}" for v = n / ParamDen: sign, zero padding to width 5, two decimals
Format05_2f(n) ==
    LET hund == RoundHalfEven(Abs(n) * 100, ParamDen)
        sign == IF n < 0 THEN <<"-">> ELSE <<>>
        body == DecDigits(hund \div 100) \o <<".">>
                \o <<Digit((hund % 100) \div 10), Digit(hund % 10)>>
    IN  sign \o Repeat("0", 5 - Len(sign) - Len(body)) \o body

\* max(0.0, min(1.0, value))
Clamp01(n) == Max(0, Min(ParamDen, n))

\* format_param_value without the clamp of line 56
format_param_value_unclamped(n) == Take(Format05_2f(n), 5)

format_param_value(n) == Take(Format05_2f(Clamp01(n)), 5)

DacExt == <<".", "d", "a", "c">>

ParamTag == <<"-", "-", "p", "a", "r", "a", "m", "1", "-">>

\* a generate_output_filename that uses its original_name argument
generate_output_filename_with_stem(original_name, cls, param1) ==
    original_name \o <<"-">> \o cls \o ParamTag \o format_param_value(param1) \o DacExt

generate_output_filename(original_name, cls, param1) ==
    cls \o ParamTag \o format_param_value(param1) \o DacExt

\* Path(name).stem: the name without its last suffix
RECURSIVE LastDot(_, _)
LastDot(s, i) == IF i = 0 THEN 0 ELSE IF s[i] = "." THEN i ELSE LastDot(s, i - 1)

Stem(name) ==
    LET j == LastDot(name, Len(name))
    IN  IF 1 < j /\ j < Len(name) THEN SubSeq(name, 1, j - 1) ELSE name

ClassNames == {<<"Z">>, <<"W", "i">>}

\* the inputs of the formatter: every n / ParamDen from -1 to 2
FmtInputs == (-ParamDen)..(2 * ParamDen)

FmtIdle == fmt_pc = "idle" /\ value = 0 /\ fmt_class = <<>> /\ formatted = <<>>
           /\ fmt_filename = <<>>

FmtInit ==
    /\ fmt_pc = "start"
    /\ value \in FmtInputs
    /\ fmt_class \in ClassNames
    /\ formatted = <<>>
    /\ fmt_filename = <<>>

\* one call of generate_output_filename, which calls format_param_value
FormatValue ==
    /\ fmt_pc = "start"
    /\ formatted' = format_param_value(value)
    /\ fmt_filename' = generate_output_filename(<<>>, fmt_class, value)
    /\ fmt_pc' = "done"
    /\ UNCHANGED <<value, fmt_class, notFmt>>

----------------------------------------------------------------------------
(* main of dac_encode.py, directory mode: lines 133-136 and 165-194 *)

\* largest number of audio files the glob finds
MaxAudio == 3

\* the i-th audio file of the input directory
AudioName(i) == <<Digit(i)>> \o <<".", "w", "a", "v">>

\* values of --param1 on the command line, as n / ParamDen
EncParamInputs == {-ParamDen, 0, 1, ParamDen \div 2, ParamDen, 2 * ParamDen}

\* values random.random() can draw from [0, 1), as n / ParamDen
RandomDraws == {0, 1, 2, ParamDen \div 2, ParamDen - 1}

EncIdle == enc_pc = "idle" /\ args_param1 = 0 /\ randomize_param1 = FALSE
           /\ class_name = <<>> /\ audio_files = <<>> /\ calls = <<>>

EncInit ==
    /\ enc_pc = "start"
    /\ args_param1 \in EncParamInputs
    /\ randomize_param1 \in BOOLEAN
    /\ class_name \in ClassNames
    /\ \E n \in 0..MaxAudio : audio_files = [i \in 1..n |-> AudioName(i)]
    /\ calls = <<>>

\* args.param1 = max(0.0, min(1.0, args.param1)), line 136
ParseArgs ==
    /\ enc_pc = "start"
    /\ args_param1' = Clamp01(args_param1)
    /\ enc_pc' = "loop"
    /\ UNCHANGED <<randomize_param1, class_name, audio_files, calls, notEnc>>

\* one iteration of "for audio_file in audio_files", lines 174-192
EncodeFile ==
    /\ enc_pc = "loop"
    /\ Len(calls) < Len(audio_files)
    /\ \E r \in RandomDraws :
        LET audio_file == audio_files[Len(calls) + 1]
            param1 == IF randomize_param1 THEN r ELSE args_param1
            output_filename ==
                generate_output_filename(Stem(audio_file), class_name, param1)
        IN  calls' = Append(calls, [input |-> audio_file,
                                    output |-> output_filename,
                                    param1 |-> param1])
    /\ UNCHANGED <<enc_pc, args_param1, randomize_param1, class_name, audio_files,
                   notEnc>>

EncodeDone ==
    /\ enc_pc = "loop"
    /\ Len(calls) = Len(audio_files)
    /\ enc_pc' = "done"
    /\ UNCHANGED <<args_param1, randomize_param1, class_name, audio_files, calls,
                   notEnc>>

----------------------------------------------------------------------------
(* get_available_device, dac_encode.py:21-50 *)

\* str.lower() on the characters that occur in device names
LowerChar(c) ==
    CASE c = "A" -> "a" [] c = "U" -> "u" [] c = "T" -> "t" [] c = "O" -> "o"
      [] c = "C" -> "c" [] c = "D" -> "d" [] c = "P" -> "p" [] c = "M" -> "m"
      [] c = "S" -> "s" [] OTHER -> c

Lower(s) == [i \in 1..Len(s) |-> LowerChar(s[i])]

Auto == <<"a", "u", "t", "o">>

RequestedDevices ==
    { Auto, <<"A", "U", "T", "O">>, <<"A", "u", "t", "o">>, <<"c", "p", "u">>,
      <<"c", "u", "d", "a">>, <<"m", "p", "s">>, <<"C", "U", "D", "A">>,
      <<"a", "u", "t", "o", "s">> }

DevIdle == dev_pc = "idle" /\ requested_device = <<>> /\ mps_available = FALSE
           /\ mps_works = FALSE /\ cuda_available = FALSE /\ cuda_works = FALSE
           /\ probes = <<>> /\ device = <<>>

DevInit ==
    /\ dev_pc = "start"
    /\ requested_device \in RequestedDevices
    /\ mps_available \in BOOLEAN
    /\ mps_works \in BOOLEAN
    /\ cuda_available \in BOOLEAN
    /\ cuda_works \in BOOLEAN
    /\ probes = <<>>
    /\ device = <<>>

devEnv == <<requested_device, mps_available, mps_works, cuda_available, cuda_works>>

\* where control goes when the test allocation on "mps" raises: the except
\* clause of lines 36-37 logs a warning and falls through to the CUDA check
OnMpsFailure == "check_cuda"

\* a test allocation whose exception is not caught
OnCudaFailureRaises == "raised"

\* likewise for "cuda", lines 45-46: falls through to the CPU fallback
OnCudaFailure == "fallback"

\* lines 24-26
ReturnRequested ==
    /\ dev_pc = "start"
    /\ Lower(requested_device) # Auto
    /\ device' = requested_device
    /\ dev_pc' = "returned"
    /\ UNCHANGED <<devEnv, probes, notDev>>

\* line 29
CheckMps ==
    /\ dev_pc = "start"
    /\ Lower(requested_device) = Auto
    /\ probes' = Append(probes, "mps.is_available")
    /\ dev_pc' = IF mps_available THEN "try_mps" ELSE "check_cuda"
    /\ UNCHANGED <<devEnv, device, notDev>>

\* lines 30-37
TryMps ==
    /\ dev_pc = "try_mps"
    /\ probes' = Append(probes, "mps.alloc")
    /\ IF mps_works
       THEN device' = <<"m", "p", "s">> /\ dev_pc' = "returned"
       ELSE device' = device /\ dev_pc' = OnMpsFailure
    /\ UNCHANGED <<devEnv, notDev>>

\* line 40
CheckCuda ==
    /\ dev_pc = "check_cuda"
    /\ probes' = Append(probes, "cuda.is_available")
    /\ dev_pc' = IF cuda_available THEN "try_cuda" ELSE "fallback"
    /\ UNCHANGED <<devEnv, device, notDev>>

\* lines 41-46
TryCuda ==
    /\ dev_pc = "try_cuda"
    /\ probes' = Append(probes, "cuda.alloc")
    /\ IF cuda_works
       THEN device' = <<"c", "u", "d", "a">> /\ dev_pc' = "returned"
       ELSE device' = device /\ dev_pc' = OnCudaFailure
    /\ UNCHANGED <<devEnv, notDev>>

\* lines 48-50
ReturnCpu ==
    /\ dev_pc = "fallback"
    /\ device' = <<"c", "p", "u">>
    /\ dev_pc' = "returned"
    /\ UNCHANGED <<devEnv, probes, notDev>>

----------------------------------------------------------------------------
(* create_train_val_split, split_excel_data.py:6-98 *)

\* largest number of rows of the input spreadsheet
MaxRows == 4

\* largest value of --samples
MaxSamples == 3

\* number of fractional bits of --train-ratio: the ratio is train_ratio / RatioDen
RatioBits == 2

RatioDen == 2 ^ RatioBits

\* values of the 'Class Name' column; "nan" is an empty cell, which equals nothing
ClassLabels == {"A", "B", "nan"}

RECURSIVE SeqsUpTo(_, _)
SeqsUpTo(S, n) ==
    IF n = 0 THEN {<<>>}
    ELSE LET shorter == SeqsUpTo(S, n - 1)
         IN  shorter \cup {Append(q, x) : q \in {t \in shorter : Len(t) = n - 1}, x \in S}

\* the elements of a sequence in order of first appearance: Series.unique()
RECURSIVE Unique(_)
Unique(q) ==
    IF q = <<>> THEN <<>>
    ELSE LET head == Unique(SubSeq(q, 1, Len(q) - 1))
             last == q[Len(q)]
         IN  IF \E i \in 1..Len(head) : head[i] = last THEN head ELSE Append(head, last)

unique_classes == Unique(df)

\* df[df[class_column] == cls]: the index labels of the rows of class cls
class_samples(cls) == {i \in 1..Len(df) : df[i] = cls /\ cls # "nan"}

\* int(samples_per_class * train_ratio), line 33 (and line 51 with len(class_samples))
TrainCountRoundedUp(n, ratio) == (n * ratio + RatioDen - 1) \div RatioDen

TrainCount(n, ratio) == (n * ratio) \div RatioDen

\* max(1, int(len(class_samples) * train_ratio)), line 51
AdjustedTrainNoMinimum(n, ratio) == TrainCount(n, ratio)

AdjustedTrain(n, ratio) == Max(1, TrainCount(n, ratio))

\* DataFrame.sample(n=k) without replacement: any k of the rows
Samples(rows, k) == {t \in SUBSET rows : Cardinality(t) = k}

\* frame.drop(labels): the rows of the frame whose index label is not among labels
drop_nothing(frame, labels) == frame

drop(frame, labels) == frame \ labels

\* the rows of a set in index order, each with its class label
RECURSIVE RowsOf(_)
RowsOf(rows) ==
    IF rows = {} THEN <<>>
    ELSE LET i == CHOOSE x \in rows : \A z \in rows : x >= z
         IN  Append(RowsOf(rows \ {i}), [index |-> i, cls |-> df[i]])

\* pd.concat(frames, ignore_index=True)
RECURSIVE Concat(_)
Concat(frames) ==
    IF frames = <<>> THEN <<>>
    ELSE Concat(SubSeq(frames, 1, Len(frames) - 1)) \o RowsOf(frames[Len(frames)])

SplitIdle == split_pc = "idle" /\ df = <<>> /\ samples_per_class = 0 /\ train_ratio = 0
             /\ cls_i = 0 /\ sampled = <<>> /\ train_samples = <<>> /\ val_samples = <<>>
             /\ train_df = <<>> /\ val_df = <<>>

SplitInit ==
    /\ split_pc = "loop"
    /\ df \in SeqsUpTo(ClassLabels, MaxRows)
    /\ samples_per_class \in 0..MaxSamples
    /\ train_ratio \in 0..RatioDen
    /\ cls_i = 1
    /\ sampled = <<>>
    /\ train_samples = <<>>
    /\ val_samples = <<>>
    /\ train_df = <<>>
    /\ val_df = <<>>

splitInputs == <<df, samples_per_class, train_ratio>>

\* lines 44-48: a class without rows is skipped
SkipEmptyClass ==
    /\ split_pc = "loop"
    /\ cls_i <= Len(unique_classes)
    /\ Cardinality(class_samples(unique_classes[cls_i])) < samples_per_class
    /\ class_samples(unique_classes[cls_i]) = {}
    /\ cls_i' = cls_i + 1
    /\ UNCHANGED <<split_pc, splitInputs, sampled, train_samples, val_samples, train_df,
                   val_df, notSplit>>

\* lines 44-53 and 60-66: a class with fewer rows than requested
SplitSmallClass ==
    /\ split_pc = "loop"
    /\ cls_i <= Len(unique_classes)
    /\ LET rows == class_samples(unique_classes[cls_i])
           adjusted_train == AdjustedTrain(Cardinality(rows), train_ratio)
           sampled_data == rows
       IN  /\ Cardinality(rows) < samples_per_class
           /\ rows # {}
           /\ sampled' = Append(sampled, [cls |-> unique_classes[cls_i],
                                           rows |-> sampled_data])
           /\ \E train_data \in Samples(sampled_data, adjusted_train) :
                /\ train_samples' = Append(train_samples, train_data)
                /\ val_samples' = Append(val_samples, drop(sampled_data, train_data))
    /\ cls_i' = cls_i + 1
    /\ UNCHANGED <<split_pc, splitInputs, train_df, val_df, notSplit>>

\* lines 54-66: a class with at least samples_per_class rows
SplitFullClass ==
    /\ split_pc = "loop"
    /\ cls_i <= Len(unique_classes)
    /\ LET rows == class_samples(unique_classes[cls_i])
           adjusted_train == TrainCount(samples_per_class, train_ratio)
       IN  /\ Cardinality(rows) >= samples_per_class
           /\ \E sampled_data \in Samples(rows, samples_per_class) :
              \E train_data \in Samples(sampled_data, adjusted_train) :
                /\ sampled' = Append(sampled, [cls |-> unique_classes[cls_i],
                                                rows |-> sampled_data])
                /\ train_samples' = Append(train_samples, train_data)
                /\ val_samples' = Append(val_samples, drop(sampled_data, train_data))
    /\ cls_i' = cls_i + 1
    /\ UNCHANGED <<split_pc, splitInputs, train_df, val_df, notSplit>>

\* lines 69-84: concatenate and write the two spreadsheets
WriteSplit ==
    /\ split_pc = "loop"
    /\ cls_i > Len(unique_classes)
    /\ train_samples # <<>>
    /\ train_df' = Concat(train_samples)
    /\ val_df' = Concat(val_samples)
    /\ split_pc' = "done"
    /\ UNCHANGED <<splitInputs, cls_i, sampled, train_samples, val_samples, notSplit>>

\* line 69: pd.concat of an empty list raises ValueError, nothing is written
ConcatFails ==
    /\ split_pc = "loop"
    /\ cls_i > Len(unique_classes)
    /\ train_samples = <<>>
    /\ split_pc' = "raised"
    /\ UNCHANGED <<splitInputs, cls_i, sampled, train_samples, val_samples, train_df,
                   val_df, notSplit>>

----------------------------------------------------------------------------
(* main of rename_files.py: flattening of the *.dac subdirectories *)

(* A directory is a function from the names in it to its entries.  A regular
   file is [kind |-> "file", id |-> its path at the start of the run]; a
   subdirectory is [kind |-> "dir", children |-> a directory whose entries are
   files or [kind |-> "dir"], a nested directory the script never enters]. *)

\* how many suffixed names D_1 .. D_k may already be taken at the start
MaxTaken == 2

\* largest number of entries of a *.dac subdirectory
MaxChildren == 3

NameA == <<"a", ".", "d", "a", "c">>

NameB == <<"a", "-", ".", "d", "a", "c">>

DashDash == <<"-", "-">>

\* names of entries inside the subdirectories
ChildrenOfA == {<<"x">>, <<"x", "_", "1">>, <<"-", "x">>, <<"d">>}

ChildrenOfB == {<<"x">>, <<"y">>}

NestedDirs == {<<"d">>}

\* name_k, the f"{name}_{suffix}" of lines 35, 38, 55, 58
Suffixed(name, k) == name \o <<"_">> \o DecDigits(k)

\* names other than the subdirectories that may exist in the target directory
ExtraFiles ==
    {Suffixed(NameA, k) : k \in 1..MaxTaken} \cup {<<"a">> \o DashDash \o <<"x">>}

\* a name that may exist as a directory not ending in .dac
ExtraDir == <<"a">> \o DashDash \o <<"x", "_", "1">>

File(path) == [kind |-> "file", id |-> path]

SubdirOf(name, children) ==
    [kind |-> "dir",
     children |-> [c \in children |->
                     IF c \in NestedDirs THEN [kind |-> "dir"] ELSE File(<<name, c>>)]]

\* the target directories the run may start from
InitialDirs ==
    { [n \in (extra \cup (IF a = {<<"absent">>} THEN {} ELSE {NameA})
                    \cup (IF b = {<<"absent">>} THEN {} ELSE {NameB})
                    \cup xd) |->
          IF n = NameA THEN SubdirOf(NameA, a)
          ELSE IF n = NameB THEN SubdirOf(NameB, b)
          ELSE IF n = ExtraDir THEN [kind |-> "dir", children |-> <<>>]
          ELSE File(<<n>>)] :
      a \in {c \in SUBSET ChildrenOfA : Cardinality(c) <= MaxChildren} \cup {{<<"absent">>}},
      b \in (SUBSET ChildrenOfB) \cup {{<<"absent">>}},
      extra \in SUBSET ExtraFiles,
      xd \in {{}, {ExtraDir}} }

\* Path.exists()
Exists(dir, name) == name \in DOMAIN dir

IsDir(dir, name) == Exists(dir, name) /\ dir[name].kind = "dir"

IsFile(dir, name) == Exists(dir, name) /\ dir[name].kind = "file"

Without(dir, name) == [n \in DOMAIN dir \ {name} |-> dir[n]]

With(dir, name, entry) == [n \in DOMAIN dir \cup {name} |-> IF n = name THEN entry ELSE dir[n]]

\* the while loop of lines 34-38 and 54-58: the first name_k that does not exist
FirstSuffix(dir, name, k) == Suffixed(name, k)

RECURSIVE FreeSuffix(_, _, _)
FreeSuffix(dir, name, k) ==
    IF Exists(dir, Suffixed(name, k)) THEN FreeSuffix(dir, name, k + 1)
    ELSE Suffixed(name, k)

\* lines 31-39 and 50-59: the destination for a file that should be called name
Destination(dir, name) == IF Exists(dir, name) THEN FreeSuffix(dir, name, 1) ELSE name

\* shutil.move(subdir / child, base_dir / dest): it raises when dest is a
\* directory that already holds an entry called child; otherwise a file at dest
\* is replaced and a directory at dest receives the file
shutil_move(dir, sub, child, dest) ==
    LET entry == dir[sub].children[child]
        emptied == [dir EXCEPT ![sub].children = Without(dir[sub].children, child)]
    IN  IF IsDir(dir, dest)
        THEN IF Exists(dir[dest].children, child) THEN [raised |-> TRUE, dir |-> dir]
             ELSE [raised |-> FALSE,
                   dir |-> [emptied EXCEPT
                              ![dest].children = With(emptied[dest].children, child, entry)]]
        ELSE [raised |-> FALSE, dir |-> With(emptied, dest, entry)]

FlatIdle == flat_pc = "idle" /\ base_dir = <<>> /\ base_dir0 = <<>> /\ todo = {}
            /\ subdir = <<>> /\ files = {} /\ moves = <<>>

\* line 22: base_dir.iterdir() lists the directory once, in any order
FlatInit ==
    /\ flat_pc = "outer"
    /\ base_dir \in InitialDirs
    /\ base_dir0 = base_dir
    /\ todo = DOMAIN base_dir
    /\ subdir = <<>>
    /\ files = {}
    /\ moves = <<>>

IsDacSubdir(name) == IsDir(base_dir, name) /\ EndsWith(name, DacExt)

\* line 23: the entries that are no directory ending in .dac are passed over.
\* Passing over an entry changes nothing, and no step of the run turns such an
\* entry into a *.dac directory or back, so where they stand in the listing
\* does not matter: they are passed over together.
VisitOther ==
    /\ flat_pc = "outer"
    /\ \E name \in todo : ~IsDacSubdir(name)
    /\ todo' = {name \in todo : IsDacSubdir(name)}
    /\ UNCHANGED <<flat_pc, base_dir, base_dir0, subdir, files, moves, notFlat>>

\* lines 25-27: an empty subdirectory is removed
VisitEmpty ==
    /\ flat_pc = "outer"
    /\ \E name \in todo :
        /\ IsDacSubdir(name)
        /\ DOMAIN base_dir[name].children = {}
        /\ base_dir' = Without(base_dir, name)
        /\ todo' = todo \ {name}
    /\ UNCHANGED <<flat_pc, base_dir0, subdir, files, moves, notFlat>>

\* lines 28-42: a subdirectory holding exactly one regular file
VisitSingle ==
    /\ flat_pc = "outer"
    /\ \E name \in todo :
        /\ IsDacSubdir(name)
        /\ \E child \in DOMAIN base_dir[name].children :
            /\ DOMAIN base_dir[name].children = {child}
            /\ IsFile(base_dir[name].children, child)
            /\ LET dest_file == Destination(base_dir, name)
                   moved == shutil_move(base_dir, name, child, dest_file)
               IN  IF moved.raised
                   THEN /\ flat_pc' = "raised"
                        /\ UNCHANGED <<base_dir, moves>>
                   ELSE /\ flat_pc' = flat_pc
                        \* subdir.rmdir(), which raises on a directory that is not empty
                        /\ base_dir' = IF IsDir(moved.dir, name)
                                          /\ DOMAIN moved.dir[name].children = {}
                                       THEN Without(moved.dir, name) ELSE moved.dir
                        /\ moves' = Append(moves, [id |-> base_dir[name].children[child].id,
                                                   single |-> TRUE,
                                                   sub |-> name,
                                                   wanted |-> name,
                                                   dest |-> dest_file,
                                                   before |-> DOMAIN base_dir])
        /\ todo' = todo \ {name}
    /\ UNCHANGED <<base_dir0, subdir, files, notFlat>>

\* lines 43-45: any other subdirectory; files = list(subdir.glob("*"))
VisitMulti ==
    /\ flat_pc = "outer"
    /\ \E name \in todo :
        /\ IsDacSubdir(name)
        /\ LET children == base_dir[name].children
           IN  /\ DOMAIN children # {}
               /\ ~(\E child \in DOMAIN children :
                        DOMAIN children = {child} /\ IsFile(children, child))
               /\ files' = DOMAIN children
        /\ subdir' = name
        /\ todo' = todo \ {name}
    /\ flat_pc' = "inner"
    /\ UNCHANGED <<base_dir, base_dir0, moves, notFlat>>

\* lines 46-62: one regular file of the subdirectory is moved up
MoveFile ==
    /\ flat_pc = "inner"
    /\ \E file \in files :
        /\ IsFile(base_dir[subdir].children, file)
        /\ LET new_filename == Stem(subdir) \o DashDash \o file
               dest_file == Destination(base_dir, new_filename)
               moved == shutil_move(base_dir, subdir, file, dest_file)
           IN  IF moved.raised
               THEN /\ flat_pc' = "raised"
                    /\ UNCHANGED <<base_dir, moves>>
               ELSE /\ flat_pc' = flat_pc
                    /\ base_dir' = moved.dir
                    /\ moves' = Append(moves, [id |-> base_dir[subdir].children[file].id,
                                               single |-> FALSE,
                                               sub |-> subdir,
                                               wanted |-> new_filename,
                                               dest |-> dest_file,
                                               before |-> DOMAIN base_dir])
        /\ files' = files \ {file}
    /\ UNCHANGED <<base_dir0, todo, subdir, notFlat>>

\* line 47: an entry of the subdirectory that is no regular file stays
SkipNested ==
    /\ flat_pc = "inner"
    /\ \E file \in files :
        /\ ~IsFile(base_dir[subdir].children, file)
        /\ files' = files \ {file}
    /\ UNCHANGED <<flat_pc, base_dir, base_dir0, todo, subdir, moves, notFlat>>

\* lines 64-70: the subdirectory is removed if nothing is left in it
FinishSubdir ==
    /\ flat_pc = "inner"
    /\ files = {}
    /\ base_dir' = IF DOMAIN base_dir[subdir].children = {}
                   THEN Without(base_dir, subdir) ELSE base_dir
    /\ flat_pc' = "outer"
    /\ subdir' = <<>>
    /\ UNCHANGED <<base_dir0, todo, files, moves, notFlat>>

FlatDone ==
    /\ flat_pc = "outer"
    /\ todo = {}
    /\ flat_pc' = "done"
    /\ UNCHANGED <<base_dir, base_dir0, todo, subdir, files, moves, notFlat>>

----------------------------------------------------------------------------
(* main of reorganize_dac_files.py *)

(* A directory is a function from the file names in it to the files' contents;
   a file's content is named after the file it was first stored as. *)

\* largest number of rows of a spreadsheet
MaxList == 2

\* values of the 'Full File Name' column
FileNames == {"f1", "f2"}

\* the directories with the given files, each with its own content
DirsOf(names) == {[n \in present |-> n] : present \in SUBSET names}

ReorgIdle == reorg_pc = "idle" /\ train_readable = FALSE /\ val_readable = FALSE
             /\ train_files = <<>> /\ val_files = <<>> /\ source_exists = FALSE
             /\ source_dir = <<>> /\ source_dir0 = <<>> /\ train_dir = <<>>
             /\ val_dir = <<>> /\ move = FALSE /\ pos = 0 /\ log = <<>>

\* after lines 18-22: arguments parsed, both destination directories exist
ReorgInit ==
    /\ reorg_pc = "read"
    /\ train_readable \in BOOLEAN
    /\ val_readable \in BOOLEAN
    /\ train_files \in IF train_readable THEN SeqsUpTo(FileNames, MaxList) ELSE {<<>>}
    /\ val_files \in IF val_readable THEN SeqsUpTo(FileNames, MaxList) ELSE {<<>>}
    /\ source_exists \in BOOLEAN
    /\ source_dir \in IF source_exists THEN DirsOf(FileNames) ELSE {<<>>}
    /\ source_dir0 = source_dir
    /\ train_dir = <<>>
    /\ val_dir = <<>>
    /\ move \in BOOLEAN
    /\ pos = 0
    /\ log = <<>>

reorgInputs == <<train_readable, val_readable, train_files, val_files, source_exists,
                 source_dir0, move>>

\* lines 26-34: both spreadsheets are read
ReadExcel ==
    /\ reorg_pc = "read"
    /\ train_readable /\ val_readable
    /\ reorg_pc' = "list"
    /\ UNCHANGED <<reorgInputs, source_dir, train_dir, val_dir, pos, log, notReorg>>

\* lines 36-38: pd.read_excel raises on either file; the error is printed and
\* main returns
ReadExcelFails ==
    /\ reorg_pc = "read"
    /\ ~(train_readable /\ val_readable)
    /\ reorg_pc' = "returned"
    /\ UNCHANGED <<reorgInputs, source_dir, train_dir, val_dir, pos, log, notReorg>>

\* lines 41-53: the source directory is listed and missing names are counted
ListSource ==
    /\ reorg_pc = "list"
    /\ source_exists
    /\ reorg_pc' = "training"
    /\ pos' = 1
    /\ UNCHANGED <<reorgInputs, source_dir, train_dir, val_dir, log, notReorg>>

\* line 41: os.listdir raises FileNotFoundError, which nothing catches
ListSourceFails ==
    /\ reorg_pc = "list"
    /\ ~source_exists
    /\ reorg_pc' = "raised"
    /\ UNCHANGED <<reorgInputs, source_dir, train_dir, val_dir, pos, log, notReorg>>

\* the body of the loop of process_files, lines 60-69, on one file name
process_file_unchecked(src, dst, file_name, mv) ==
    IF file_name \in DOMAIN src
    THEN [raised |-> FALSE, found |-> TRUE,
          src |-> IF mv THEN Without(src, file_name) ELSE src,
          dst |-> With(dst, file_name, src[file_name])]
    ELSE [raised |-> TRUE, found |-> FALSE, src |-> src, dst |-> dst]

process_file_always_moves(src, dst, file_name, mv) ==
    IF file_name \in DOMAIN src
    THEN [raised |-> FALSE, found |-> TRUE,
          src |-> Without(src, file_name),
          dst |-> With(dst, file_name, src[file_name])]
    ELSE [raised |-> FALSE, found |-> FALSE, src |-> src, dst |-> dst]

process_file(src, dst, file_name, mv) ==
    IF file_name \in DOMAIN src
    THEN [raised |-> FALSE, found |-> TRUE,
          src |-> IF mv THEN Without(src, file_name) ELSE src,
          dst |-> With(dst, file_name, src[file_name])]
    ELSE [raised |-> FALSE, found |-> FALSE, src |-> src, dst |-> dst]

\* one iteration of process_files(train_files, args.train_dir, "training")
ProcessTrainFile ==
    /\ reorg_pc = "training"
    /\ pos <= Len(train_files)
    /\ LET r == process_file(source_dir, train_dir, train_files[pos], move)
       IN  /\ source_dir' = r.src
           /\ train_dir' = r.dst
           /\ reorg_pc' = IF r.raised THEN "raised" ELSE reorg_pc
           /\ log' = Append(log, [desc |-> "training", file_name |-> train_files[pos],
                                  found |-> r.found])
    /\ pos' = pos + 1
    /\ UNCHANGED <<reorgInputs, val_dir, notReorg>>

\* line 72 returns, line 73 starts
TrainingDone ==
    /\ reorg_pc = "training"
    /\ pos > Len(train_files)
    /\ reorg_pc' = "validation"
    /\ pos' = 1
    /\ UNCHANGED <<reorgInputs, source_dir, train_dir, val_dir, log, notReorg>>

\* one iteration of process_files(val_files, args.val_dir, "validation")
ProcessValFile ==
    /\ reorg_pc = "validation"
    /\ pos <= Len(val_files)
    /\ LET r == process_file(source_dir, val_dir, val_files[pos], move)
       IN  /\ source_dir' = r.src
           /\ val_dir' = r.dst
           /\ reorg_pc' = IF r.raised THEN "raised" ELSE reorg_pc
           /\ log' = Append(log, [desc |-> "validation", file_name |-> val_files[pos],
                                  found |-> r.found])
    /\ pos' = pos + 1
    /\ UNCHANGED <<reorgInputs, train_dir, notReorg>>

\* line 75
ReorgDone ==
    /\ reorg_pc = "validation"
    /\ pos > Len(val_files)
    /\ reorg_pc' = "done"
    /\ UNCHANGED <<reorgInputs, source_dir, train_dir, val_dir, pos, log, notReorg>>

----------------------------------------------------------------------------
(* rename_dac_files, rename_dac_files.py:5-38, run twice on one directory *)

(* The directory is a function from the names in it to the entries' contents. *)

ZeldaPrefix ==
    <<"Z", "e", "l", "d", "a", "-", "-", "p", "a", "r", "a", "m", "1", "-">>

\* the names an entry of the directory may have
RenNames ==
    { ZeldaPrefix \o <<"0", "0", ".", "5", "0">> \o DacExt,
      ZeldaPrefix \o <<"0", "0", ".", "5", "0", "_", "a">> \o DacExt,
      ZeldaPrefix \o <<"0", "0", ".", "5", "0", "0">> \o DacExt \o <<"2">> \o DacExt,
      ZeldaPrefix \o <<"0", "0", ".", "5", "0", ".", "3">> \o DacExt,
      ZeldaPrefix \o <<"1">> \o DacExt,
      ZeldaPrefix \o <<"0", "0", ".", "5", "0", "_", "c", ".", "t", "x", "t">> }

\* pat occurs in s
Contains(s, pat) == \E i \in 1..(Len(s) - Len(pat) + 1) : SubSeq(s, i, i + Len(pat) - 1) = pat

AllDigits(s, from, n) == \A i \in from..(from + n - 1) : IsDigit(s[i])

\* the ways "Zelda--param1-" \d+ "." \d+ .*? ".dac" matches at the start of
\* filename: <<k1, k2>> are the lengths of the two digit runs
MatchLengths(filename) ==
    LET p == Len(ZeldaPrefix)
    IN  { kk \in (1..(Len(filename) - p)) \X (1..(Len(filename) - p)) :
            /\ StartsWith(filename, ZeldaPrefix)
            /\ p + kk[1] + 1 + kk[2] <= Len(filename)
            /\ AllDigits(filename, p + 1, kk[1])
            /\ filename[p + kk[1] + 1] = "."
            /\ AllDigits(filename, p + kk[1] + 2, kk[2])
            /\ Contains(Drop(filename, p + kk[1] + 1 + kk[2]), DacExt) }

\* re.match(pattern, filename), line 20
Matches(filename) == MatchLengths(filename) # {}

\* match.group(1): both \d+ are greedy, the first takes precedence
Group1(filename) ==
    LET ms == MatchLengths(filename)
        kk == CHOOSE m \in ms :
                \A o \in ms : o[1] < m[1] \/ (o[1] = m[1] /\ o[2] <= m[2])
    IN  Take(filename, Len(ZeldaPrefix) + kk[1] + 1 + kk[2])

\* glob.glob(os.path.join(directory, "*.dac")): hidden names are not matched
Glob(dir) == {n \in DOMAIN dir : EndsWith(n, DacExt) /\ n[1] # "."}

\* os.rename(old_path, new_path): an entry at new_path is replaced
os_rename(dir, old, new) == With(Without(dir, old), new, dir[old])

\* lines 17-38 on one file name: the directory afterwards and what was done
rename_one_unchecked(dir, filename) ==
    IF Matches(filename)
    THEN LET new_filename == Group1(filename) \o DacExt
         IN  IF filename # new_filename
             THEN [dir |-> os_rename(dir, filename, new_filename), outcome |-> "renamed",
                   new_filename |-> new_filename]
             ELSE [dir |-> dir, outcome |-> "same", new_filename |-> new_filename]
    ELSE [dir |-> dir, outcome |-> "no match", new_filename |-> <<>>]

rename_one(dir, filename) ==
    IF Matches(filename)
    THEN LET new_filename == Group1(filename) \o DacExt
         IN  IF filename # new_filename
             THEN IF Exists(dir, new_filename)
                  THEN [dir |-> dir, outcome |-> "exists", new_filename |-> new_filename]
                  ELSE [dir |-> os_rename(dir, filename, new_filename),
                        outcome |-> "renamed", new_filename |-> new_filename]
             ELSE [dir |-> dir, outcome |-> "same", new_filename |-> new_filename]
    ELSE [dir |-> dir, outcome |-> "no match", new_filename |-> <<>>]

RenIdle == ren_pc = "idle" /\ directory = <<>> /\ directory0 = <<>> /\ dac_files = {}
           /\ after_first = <<>> /\ renames = {}

\* line 11 of the first call: the glob lists the directory once, in any order
RenInit ==
    /\ ren_pc = "first"
    /\ directory \in {[n \in present |-> n] : present \in SUBSET RenNames}
    /\ directory0 = directory
    /\ dac_files = Glob(directory)
    /\ after_first = <<>>
    /\ renames = {}

\* one iteration of "for old_path in dac_files", lines 16-38
RenameFile ==
    /\ ren_pc \in {"first", "second"}
    /\ \E filename \in dac_files :
        LET r == rename_one(directory, filename)
        IN  /\ directory' = r.dir
            /\ dac_files' = dac_files \ {filename}
            /\ renames' = renames \cup {[call |-> ren_pc,
                                          filename |-> filename,
                                          new_filename |-> r.new_filename,
                                          outcome |-> r.outcome,
                                          existed |-> Exists(directory, r.new_filename)]}
    /\ UNCHANGED <<ren_pc, directory0, after_first, notRen>>

\* the first call returns and the function is called again on the directory
CallAgain ==
    /\ ren_pc = "first"
    /\ dac_files = {}
    /\ after_first' = directory
    /\ dac_files' = Glob(directory)
    /\ ren_pc' = "second"
    /\ UNCHANGED <<directory, directory0, renames, notRen>>

\* the second call returns
RenDone ==
    /\ ren_pc = "second"
    /\ dac_files = {}
    /\ ren_pc' = "done"
    /\ UNCHANGED <<directory, directory0, dac_files, after_first, renames, notRen>>

----------------------------------------------------------------------------
(* extract_random_segment, wav-extract.py:6-29 *)

(* Times are binary floating-point numbers with TimeBits fractional bits: a
   time is n / TimeDen.  A quotient that is not such a number is rounded to
   the nearest one, ties to even, as the IEEE-754 division of the code rounds
   to the nearest double; so total_duration may lie above or below the exact
   len(y) / sr.  Sums, differences and products by an integer of these
   numbers are again such numbers and are computed exactly. *)
TimeBits == 3

TimeDen == 2 ^ TimeBits

\* largest number of samples in the input file
MaxWavSamples == 6

\* largest segment_duration, in seconds
MaxSegmentSeconds == 2

\* sample rates of the input file; 3 does not divide TimeDen, so durations round
SampleRates == {1, 2, 3}

\* the signal librosa.load returns (mono): sample i of the file is the value i
Signals == {[i \in 1..n |-> i] : n \in 0..MaxWavSamples}

\* segment_duration >= 0, as numerators over TimeDen
SegmentDurations == 0..(MaxSegmentSeconds * TimeDen)

\* int(x) for x = num / TimeDen: truncation toward zero
int(num) == IF num >= 0 THEN num \div TimeDen ELSE -((-num) \div TimeDen)

\* the length of the signal taken as its duration: no division by the sample rate
get_duration_in_samples(samples, rate) == Len(samples) * TimeDen

\* librosa.get_duration(y=y, sr=sr) == float(len(y)) / sr, line 9
get_duration(samples, rate) == RoundHalfEven(Len(samples) * TimeDen, rate)

\* max_start_time = total_duration - segment_duration, line 17
max_start_time(total, duration) == total - duration

\* random.uniform(a, b) == a + (b - a) * random(): any number from a to b, where
\* b itself can result from the rounding of the product and the sum
\* (max_start_time is positive when line 18 is reached)
uniform(a, b) == a..b

\* the Python slice s[a:b] of a sequence, for any integers a and b
Slice(s, a, b) ==
    LET lo == IF a < 0 THEN Max(0, a + Len(s)) ELSE Min(a, Len(s))
        hi == IF b < 0 THEN Max(0, b + Len(s)) ELSE Min(b, Len(s))
    IN  SubSeq(s, lo + 1, hi)

\* nothing written yet
NoFile == [data |-> <<>>, sr |-> 0]

WavIdle == wav_pc = "idle" /\ y = <<>> /\ sr = 0 /\ segment_duration = 0
           /\ total_duration = 0 /\ start_time = 0 /\ start_sample = 0
           /\ end_sample = 0 /\ written = NoFile

\* the call extract_random_segment(input_wav, output_wav, segment_duration),
\* after librosa.load of line 8 has returned y and sr
WavInit ==
    /\ wav_pc = "loaded"
    /\ y \in Signals
    /\ sr \in SampleRates
    /\ segment_duration \in SegmentDurations
    /\ total_duration = 0
    /\ start_time = 0
    /\ start_sample = 0
    /\ end_sample = 0
    /\ written = NoFile

wavInputs == <<y, sr, segment_duration>>

\* line 9
GetDuration ==
    /\ wav_pc = "loaded"
    /\ total_duration' = get_duration(y, sr)
    /\ wav_pc' = "measured"
    /\ UNCHANGED <<wavInputs, start_time, start_sample, end_sample, written, notWav>>

\* lines 11-14: the file is not longer than the segment, it is written whole
CopyEntireFile ==
    /\ wav_pc = "measured"
    /\ total_duration <= segment_duration
    /\ written' = [data |-> y, sr |-> sr]
    /\ wav_pc' = "returned"
    /\ UNCHANGED <<wavInputs, total_duration, start_time, start_sample, end_sample,
                   notWav>>

\* lines 17-18: the random start time
DrawStartTime ==
    /\ wav_pc = "measured"
    /\ ~(total_duration <= segment_duration)
    /\ start_time' \in uniform(0, max_start_time(total_duration, segment_duration))
    /\ wav_pc' = "drawn"
    /\ UNCHANGED <<wavInputs, total_duration, start_sample, end_sample, written, notWav>>

\* lines 21-28: sample indices, slice, write
WriteSegment ==
    /\ wav_pc = "drawn"
    /\ start_sample' = int(start_time * sr)
    /\ end_sample' = start_sample' + int(segment_duration * sr)
    /\ written' = [data |-> Slice(y, start_sample', end_sample'), sr |-> sr]
    /\ wav_pc' = "returned"
    /\ UNCHANGED <<wavInputs, total_duration, start_time, notWav>>

----------------------------------------------------------------------------
(* Specifications: one per entry point *)

FmtNext == FormatValue

InitFormat ==
    FmtInit /\ EncIdle /\ DevIdle /\ SplitIdle /\ FlatIdle
    /\ ReorgIdle /\ RenIdle /\ WavIdle

SpecFormat == InitFormat /\ [][FmtNext]_vars

EncNext == ParseArgs \/ EncodeFile \/ EncodeDone

InitEncode ==
    EncInit /\ FmtIdle /\ DevIdle /\ SplitIdle /\ FlatIdle
    /\ ReorgIdle /\ RenIdle /\ WavIdle

SpecEncode == InitEncode /\ [][EncNext]_vars

DevNext ==
    ReturnRequested \/ CheckMps \/ TryMps \/ CheckCuda \/ TryCuda \/ ReturnCpu

InitDevice ==
    DevInit /\ FmtIdle /\ EncIdle /\ SplitIdle /\ FlatIdle
    /\ ReorgIdle /\ RenIdle /\ WavIdle

SpecDevice == InitDevice /\ [][DevNext]_vars

SplitNext == SkipEmptyClass \/ SplitSmallClass \/ SplitFullClass \/ WriteSplit \/ ConcatFails

InitSplit ==
    SplitInit /\ FmtIdle /\ EncIdle /\ DevIdle /\ FlatIdle
    /\ ReorgIdle /\ RenIdle /\ WavIdle

SpecSplit == InitSplit /\ [][SplitNext]_vars

FlatNext ==
    VisitOther \/ VisitEmpty \/ VisitSingle \/ VisitMulti \/ MoveFile \/ SkipNested
    \/ FinishSubdir \/ FlatDone

InitFlatten ==
    FlatInit /\ FmtIdle /\ EncIdle /\ DevIdle /\ SplitIdle
    /\ ReorgIdle /\ RenIdle /\ WavIdle

SpecFlatten == InitFlatten /\ [][FlatNext]_vars

ReorgNext ==
    ReadExcel \/ ReadExcelFails \/ ListSource \/ ListSourceFails \/ ProcessTrainFile
    \/ TrainingDone \/ ProcessValFile \/ ReorgDone

InitReorg ==
    ReorgInit /\ FmtIdle /\ EncIdle /\ DevIdle /\ SplitIdle
    /\ FlatIdle /\ RenIdle /\ WavIdle

SpecReorg == InitReorg /\ [][ReorgNext]_vars

RenNext == RenameFile \/ CallAgain \/ RenDone

InitRename ==
    RenInit /\ FmtIdle /\ EncIdle /\ DevIdle /\ SplitIdle
    /\ FlatIdle /\ ReorgIdle /\ WavIdle

SpecRename == InitRename /\ [][RenNext]_vars

WavNext == GetDuration \/ CopyEntireFile \/ DrawStartTime \/ WriteSegment

InitExtract ==
    WavInit /\ FmtIdle /\ EncIdle /\ DevIdle /\ SplitIdle
    /\ FlatIdle /\ ReorgIdle /\ RenIdle

SpecExtract == InitExtract /\ [][WavNext]_vars

----------------------------------------------------------------------------
(* Properties of format_param_value / generate_output_filename *)

ClampedValue == IF value < 0 THEN 0 ELSE IF value > ParamDen THEN ParamDen ELSE value

\* the number of hundredths a string DD.DD denotes
Hundredths(s) ==
    1000 * DigitVal(s[1]) + 100 * DigitVal(s[2]) + 10 * DigitVal(s[4]) + DigitVal(s[5])

\* C1: for every input (below 0, in [0,1], above 1) format_param_value returns
\* exactly five characters DD.DD that denote the clamped value rounded to two
\* decimals, between "00.00" and "01.00"; these five characters are what
\* generate_output_filename puts before the extension.
C1_FormatClampsToFiveChars ==
    fmt_pc = "done" =>
        /\ Len(formatted) = 5
        /\ \A i \in {1, 2, 4, 5} : IsDigit(formatted[i])
        /\ formatted[3] = "."
        /\ Hundredths(formatted) >= 0
        /\ Hundredths(formatted) <= 100
        /\ 2 * Abs(Hundredths(formatted) * ParamDen - 100 * ClampedValue) <= ParamDen
        /\ fmt_filename = fmt_class \o ParamTag \o formatted \o DacExt

C1_Witness ==
    /\ fmt_pc = "done"
    /\ value > ParamDen
    /\ formatted = <<"0", "1", ".", "0", "0">>

----------------------------------------------------------------------------
(* Properties of get_available_device *)

AutoRequested ==
    /\ Len(requested_device) = 4
    /\ requested_device[1] \in {"a", "A"}
    /\ requested_device[2] \in {"u", "U"}
    /\ requested_device[3] \in {"t", "T"}
    /\ requested_device[4] \in {"o", "O"}

ExpectedDevice ==
    IF ~AutoRequested THEN requested_device
    ELSE IF mps_available /\ mps_works THEN <<"m", "p", "s">>
    ELSE IF cuda_available /\ cuda_works THEN <<"c", "u", "d", "a">>
    ELSE <<"c", "p", "u">>

ProbeRank(p) ==
    CASE p = "mps.is_available" -> 1 [] p = "mps.alloc" -> 2
      [] p = "cuda.is_available" -> 3 [] p = "cuda.alloc" -> 4

----------------------------------------------------------------------------
(* Properties of the encode loop *)

\* C8 as claimed: in one directory-mode run every input file gets its own
\* output path, so no two inputs are encoded to the same path.
C8_OutputPathsUnique ==
    \A i, j \in 1..Len(calls) : i # j => calls[i].output # calls[j].output

\* C8 amended: the output path depends only on the class name and the formatted
\* parameter, not on the input file: with a fixed --param1 all inputs of a run
\* get the same path, and with --randomize_param1 two inputs get the same path
\* whenever their draws are equal and only if their draws lie within 0.01.
C8_OutputPathFromClassAndParam ==
    \A i, j \in 1..Len(calls) :
        /\ calls[i].input = audio_files[i]
        /\ Len(calls[i].output) = Len(class_name) + Len(ParamTag) + 5 + Len(DacExt)
        /\ StartsWith(calls[i].output, class_name \o ParamTag)
        /\ EndsWith(calls[i].output, DacExt)
        /\ ~randomize_param1 => calls[i].output = calls[j].output
        /\ calls[i].param1 = calls[j].param1 => calls[i].output = calls[j].output
        /\ calls[i].output = calls[j].output
            => 100 * Abs(calls[i].param1 - calls[j].param1) <= ParamDen

C8_Witness ==
    /\ enc_pc = "done"
    /\ Len(calls) >= 2
    /\ ~randomize_param1
    /\ calls[1].input # calls[2].input
    /\ calls[1].output = calls[2].output

----------------------------------------------------------------------------
(* Properties of create_train_val_split *)

\* the number of rows of class cls in the input spreadsheet
RowsInClass(cls) == Cardinality({i \in 1..Len(df) : df[i] = cls})

\* the number of rows of class cls written to an output spreadsheet
Written(out, cls) == Cardinality({k \in 1..Len(out) : out[k].cls = cls})

\* how often input row i occurs in an output spreadsheet
Occurrences(out, i) == Cardinality({k \in 1..Len(out) : out[k].index = i})

\* t = floor(n * train_ratio)
IsFloorOfShare(t, n) == t * RatioDen <= n * train_ratio /\ n * train_ratio < (t + 1) * RatioDen

RealClasses == ClassLabels \ {"nan"}

\* C3: a class with at least samples_per_class rows gets
\* floor(samples_per_class * train_ratio) training rows and samples_per_class
\* minus that many validation rows; the two counts sum to samples_per_class.
C3_FullClassCounts ==
    split_pc = "done" =>
        \A cls \in RealClasses :
            (RowsInClass(cls) >= 1 /\ RowsInClass(cls) >= samples_per_class) =>
                /\ IsFloorOfShare(Written(train_df, cls), samples_per_class)
                /\ Written(val_df, cls) = samples_per_class - Written(train_df, cls)
                /\ Written(train_df, cls) + Written(val_df, cls) = samples_per_class

C3_Witness ==
    /\ split_pc = "done"
    /\ \E cls \in RealClasses :
        /\ RowsInClass(cls) > samples_per_class
        /\ Written(train_df, cls) = 1
        /\ Written(val_df, cls) = 1

\* C4 as claimed: a class with 0 < n < samples_per_class rows gets
\* floor(n * train_ratio) training rows and the rest as validation rows, for
\* every n and every train_ratio in [0,1], n = 1 and train_ratio = 0 included.
C4_SmallClassFloorCounts ==
    split_pc = "done" =>
        \A cls \in RealClasses :
            (0 < RowsInClass(cls) /\ RowsInClass(cls) < samples_per_class) =>
                /\ IsFloorOfShare(Written(train_df, cls), RowsInClass(cls))
                /\ Written(train_df, cls) + Written(val_df, cls) = RowsInClass(cls)

\* C4 amended: such a class gets max(1, floor(n * train_ratio)) training rows
\* (at least one, also when the share rounds down to 0) and the rest as
\* validation rows; train + validation = n and every row of the class is in
\* exactly one of the two outputs.
C4_SmallClassCounts ==
    split_pc = "done" =>
        \A cls \in RealClasses :
            (0 < RowsInClass(cls) /\ RowsInClass(cls) < samples_per_class) =>
                /\ IF RowsInClass(cls) * train_ratio >= RatioDen
                   THEN IsFloorOfShare(Written(train_df, cls), RowsInClass(cls))
                   ELSE Written(train_df, cls) = 1
                /\ Written(train_df, cls) + Written(val_df, cls) = RowsInClass(cls)
                /\ \A i \in 1..Len(df) :
                    df[i] = cls => Occurrences(train_df, i) + Occurrences(val_df, i) = 1

C4_Witness ==
    /\ split_pc = "done"
    /\ train_ratio = 0
    /\ \E cls \in RealClasses :
        /\ RowsInClass(cls) = 1
        /\ samples_per_class > 1
        /\ Written(train_df, cls) = 1
        /\ Written(val_df, cls) = 0

----------------------------------------------------------------------------
(* Properties of the flatten script *)

\* where the regular files of a target directory are: <<name>> or <<subdir, child>>
FileLocations(dir) ==
    {<<n>> : n \in {x \in DOMAIN dir : dir[x].kind = "file"}}
    \cup UNION {{<<n, c>> : c \in {k \in DOMAIN dir[n].children :
                                      dir[n].children[k].kind = "file"}} :
                n \in {x \in DOMAIN dir : dir[x].kind = "dir"}}

FileAt(dir, loc) == IF Len(loc) = 1 THEN dir[loc[1]] ELSE dir[loc[1]].children[loc[2]]

FileIds(dir) == {FileAt(dir, loc).id : loc \in FileLocations(dir)}

\* C2: every move goes to a path that did not exist: the unsuffixed name when
\* that is free, else name_k for the smallest k >= 1 with name_k free; so no
\* entry that was in the target directory at the start and no file moved
\* earlier in the run is overwritten, and the number of regular files is kept.
C2_FlattenNeverOverwrites ==
    /\ flat_pc # "raised"
    /\ \A i \in 1..Len(moves) :
        LET m == moves[i]
        IN  /\ m.dest \notin m.before
            /\ m.wanted \notin m.before => m.dest = m.wanted
            /\ m.wanted \in m.before =>
                \E k \in 1..(Cardinality(m.before) + 1) :
                    /\ m.dest = Suffixed(m.wanted, k)
                    /\ \A j \in 1..(k - 1) : Suffixed(m.wanted, j) \in m.before
            /\ IsFile(base_dir, m.dest)
            /\ base_dir[m.dest].id = m.id
    /\ \A n \in DOMAIN base_dir0 :
        (base_dir0[n].kind = "file" \/ ~EndsWith(n, DacExt)) =>
            Exists(base_dir, n) /\ base_dir[n] = base_dir0[n]
    /\ Cardinality(FileLocations(base_dir)) = Cardinality(FileLocations(base_dir0))
    /\ FileIds(base_dir) = FileIds(base_dir0)

C2_Witness ==
    /\ flat_pc = "done"
    /\ \E i, j \in 1..Len(moves) :
        /\ i < j
        /\ moves[i].wanted \in DOMAIN base_dir0
        /\ moves[j].wanted = moves[i].dest
        /\ moves[j].dest = Suffixed(moves[j].wanted, 1)
    /\ \E i \in 1..Len(moves) :
        /\ moves[i].single
        /\ moves[i].dest = Suffixed(moves[i].sub, 1)

\* C9: a subdirectory D holding exactly one regular file, in a target directory
\* with no other entry named D or D_k, has its file moved to target_dir/D,
\* without a numeric suffix.
C9_SingleFileTakesSubdirName ==
    \A i \in 1..Len(moves) :
        LET m == moves[i]
        IN  (m.single /\ \A n \in m.before \ {m.sub} : ~StartsWith(n, m.sub))
                => m.dest = m.sub

----------------------------------------------------------------------------
(* Properties of the reorganize script *)

Listed(list) == {list[i] : i \in 1..Len(list)}

NothingRouted ==
    train_dir = <<>> /\ val_dir = <<>> /\ source_dir = source_dir0 /\ log = <<>>

\* the items of both spreadsheets in the order the run takes them
AllItems == train_files \o val_files

\* C6 as claimed: a missing item (a listed file absent from the source
\* directory, a source directory that does not exist, a spreadsheet that cannot
\* be read) only costs that item: the run never stops early, and the files of a
\* readable spreadsheet that are in the source directory are still routed.
C6_MissingItemOnlySkipped ==
    /\ reorg_pc \notin {"returned", "raised"}
    /\ reorg_pc = "done" =>
        /\ Len(log) = Len(AllItems)
        /\ \A i \in 1..Len(log) :
            (log[i].file_name \in DOMAIN source_dir0) =>
                log[i].file_name \in DOMAIN train_dir \cup DOMAIN val_dir

\* C6 amended: only a listed file name that is absent from the source directory
\* is reported and skipped with the run continuing over all remaining items.
\* A spreadsheet that cannot be read makes the run print the error and return
\* before any file is routed, those of the other spreadsheet included, and a
\* source directory that does not exist ends the run with an uncaught error
\* before any file is routed.
C6_OnlyMissingFileIsSkipped ==
    /\ ~(train_readable /\ val_readable) =>
        reorg_pc \in {"read", "returned"} /\ NothingRouted
    /\ (train_readable /\ val_readable /\ ~source_exists) =>
        reorg_pc \in {"read", "list", "raised"} /\ NothingRouted
    /\ (train_readable /\ val_readable /\ source_exists) =>
        reorg_pc \in {"read", "list", "training", "validation", "done"}
    /\ reorg_pc = "done" => Len(log) = Len(AllItems)
    /\ \A i \in 1..Len(log) :
        /\ log[i].file_name = AllItems[i]
        /\ log[i].desc = IF i <= Len(train_files) THEN "training" ELSE "validation"
        /\ log[i].found <=>
            /\ log[i].file_name \in DOMAIN source_dir0
            /\ ~(move /\ \E j \in 1..(i - 1) : AllItems[j] = AllItems[i])
        /\ log[i].found =>
            log[i].file_name \in DOMAIN (IF i <= Len(train_files) THEN train_dir ELSE val_dir)

C6_Witness ==
    /\ reorg_pc = "done"
    /\ \E i, j \in 1..Len(log) :
        /\ i < j
        /\ log[i].desc = log[j].desc
        /\ log[i].file_name \notin DOMAIN source_dir0
        /\ ~log[i].found
        /\ log[j].found

\* C7 as claimed: after a run, in copy mode and in move mode alike, every name
\* of the training spreadsheet that was in the source directory is in the
\* training directory and every such name of the validation spreadsheet is in
\* the validation directory, a name in both spreadsheets included; copy mode
\* leaves the source directory as it was, move mode removes the listed files.
C7_ListedFilesReachTheirDirs ==
    reorg_pc = "done" =>
        /\ \A n \in Listed(train_files) \cap DOMAIN source_dir0 : n \in DOMAIN train_dir
        /\ \A n \in Listed(val_files) \cap DOMAIN source_dir0 : n \in DOMAIN val_dir
        /\ ~move => source_dir = source_dir0
        /\ move => DOMAIN source_dir
                    = DOMAIN source_dir0 \ (Listed(train_files) \cup Listed(val_files))

\* C7 amended: as claimed in copy mode; in move mode a name that is in both
\* spreadsheets is moved to the training directory only and is not in the
\* validation directory, every other listed name that was in the source
\* directory is in the directory of its spreadsheet; copy mode leaves the
\* source directory as it was, move mode removes exactly the listed files.
C7_ListedFilesRouted ==
    reorg_pc = "done" =>
        /\ \A n \in Listed(train_files) \cap DOMAIN source_dir0 :
            n \in DOMAIN train_dir /\ train_dir[n] = source_dir0[n]
        /\ \A n \in Listed(val_files) \cap DOMAIN source_dir0 :
            IF move /\ n \in Listed(train_files)
            THEN n \notin DOMAIN val_dir
            ELSE n \in DOMAIN val_dir /\ val_dir[n] = source_dir0[n]
        /\ DOMAIN train_dir \subseteq Listed(train_files)
        /\ DOMAIN val_dir \subseteq Listed(val_files)
        /\ ~move => source_dir = source_dir0
        /\ move =>
            /\ DOMAIN source_dir
                = DOMAIN source_dir0 \ (Listed(train_files) \cup Listed(val_files))
            /\ \A n \in DOMAIN source_dir : source_dir[n] = source_dir0[n]

C7_Witness ==
    /\ reorg_pc = "done"
    /\ move
    /\ \E n \in Listed(train_files) \cap Listed(val_files) \cap DOMAIN source_dir0 :
        n \in DOMAIN train_dir /\ n \notin DOMAIN val_dir /\ n \notin DOMAIN source_dir

----------------------------------------------------------------------------
(* Properties of rename_dac_files *)

\* base is "Zelda--param1-", digits, a dot, digits
IsParamBase(base) ==
    /\ StartsWith(base, ZeldaPrefix)
    /\ \E k \in (Len(ZeldaPrefix) + 2)..(Len(base) - 1) :
        /\ base[k] = "."
        /\ \A i \in ((Len(ZeldaPrefix) + 1)..Len(base)) \ {k} : IsDigit(base[i])

\* name starts with Zelda--param1-<digits>.<digits>
HasParamPrefix(name) == \E n \in 1..Len(name) : IsParamBase(Take(name, n))

\* new is the longest such prefix of old, plus .dac
IsShortened(old, new) ==
    /\ EndsWith(new, DacExt)
    /\ LET base == Take(new, Len(new) - Len(DacExt))
       IN  /\ IsParamBase(base)
           /\ StartsWith(old, base)
           /\ ~IsDigit(old[Len(base) + 1])

Contents(dir) == {dir[n] : n \in DOMAIN dir}

\* C10: a *.dac file whose name starts with Zelda--param1-<digits>.<digits> is
\* renamed to that prefix plus .dac only if no entry has the new name, otherwise
\* it is skipped and keeps its old name; a name that does not match is left
\* alone; no entry is lost or replaced, so the number of entries is the same
\* before and after; and a second run changes nothing.
C10_RenameKeepsFiles ==
    /\ Cardinality(DOMAIN directory) = Cardinality(DOMAIN directory0)
    /\ Contents(directory) = Contents(directory0)
    /\ \A n \in DOMAIN directory0 :
        (~EndsWith(n, DacExt) \/ ~HasParamPrefix(n)) =>
            Exists(directory, n) /\ directory[n] = directory0[n]
    /\ \A r \in renames :
        /\ r.outcome = "no match" <=> ~HasParamPrefix(r.filename)
        /\ r.outcome # "no match" => IsShortened(r.filename, r.new_filename)
        /\ r.outcome = "same" <=> r.filename = r.new_filename
        /\ r.outcome = "renamed" =>
            /\ ~r.existed
            /\ Exists(directory, r.new_filename)
            /\ directory[r.new_filename] = directory0[r.filename]
            /\ ~Exists(directory, r.filename)
        /\ r.outcome = "exists" =>
            /\ r.existed
            /\ Exists(directory, r.filename)
            /\ directory[r.filename] = directory0[r.filename]
        /\ r.call = "second" => r.outcome # "renamed"
    /\ ren_pc \in {"second", "done"} => directory = after_first
    /\ ren_pc = "done" =>
        \A n \in Glob(directory) : \E r \in renames : r.call = "second" /\ r.filename = n

C10_Witness ==
    /\ ren_pc = "done"
    /\ \E r1, r2, r3 \in renames :
        /\ r1.call = "first" /\ r1.outcome = "renamed"
        /\ r2.call = "first" /\ r2.outcome = "exists"
        /\ r2.new_filename = r1.new_filename
        /\ r3.call = "second" /\ r3.outcome = "exists" /\ r3.filename = r2.filename

----------------------------------------------------------------------------
(* Properties of extract_random_segment *)

\* C11: when total_duration <= segment_duration the whole signal is written
\* unchanged at its sample rate; otherwise, whatever start time is drawn from
\* [0, total_duration - segment_duration], the written segment is exactly
\* int(segment_duration * sr) consecutive samples of the input, starting at
\* start_sample, with 0 <= start_sample and end_sample <= len(y): the slice is
\* never truncated, also when total_duration is a rounded quotient.
C11_SegmentInsideInput ==
    wav_pc = "returned" =>
        /\ written.sr = sr
        /\ IF total_duration <= segment_duration
           THEN written.data = y
           ELSE /\ start_time >= 0
                /\ start_time <= total_duration - segment_duration
                /\ 0 <= start_sample
                /\ end_sample <= Len(y)
                /\ end_sample - start_sample = int(segment_duration * sr)
                /\ Len(written.data) = int(segment_duration * sr)
                /\ \A i \in 1..Len(written.data) : written.data[i] = y[start_sample + i]

C11_Witness ==
    /\ wav_pc = "returned"
    /\ total_duration > segment_duration
    /\ total_duration * sr > Len(y) * TimeDen
    /\ start_time = total_duration - segment_duration
    /\ start_sample > 0
    /\ end_sample = Len(y)
    /\ Len(written.data) >= 2

----------------------------------------------------------------------------
(* Properties of create_train_val_split: the two outputs partition the sample *)

\* the input rows written to an output spreadsheet
IndexSet(out) == {out[k].index : k \in 1..Len(out)}

\* the rows of all per-class frames of a list
FrameRows(frames) == UNION {frames[k] : k \in 1..Len(frames)}

\* C12: for every class handled by the loop the training rows and the
\* validation rows are disjoint and their union is exactly the rows sampled
\* for that class, which are rows of that class (all of them, or
\* samples_per_class of them), each class being handled once; so in the two
\* written spreadsheets no input row is in both, no row is twice in one, and
\* every output row is an input row with its class label unchanged.
C12_TrainValPartition ==
    /\ Len(train_samples) = Len(sampled)
    /\ Len(val_samples) = Len(sampled)
    /\ \A k \in 1..Len(sampled) :
        /\ train_samples[k] \cap val_samples[k] = {}
        /\ train_samples[k] \cup val_samples[k] = sampled[k].rows
        /\ val_samples[k] = sampled[k].rows \ train_samples[k]
        /\ sampled[k].rows \subseteq {i \in 1..Len(df) : df[i] = sampled[k].cls}
        /\ Cardinality(sampled[k].rows)
            = Min(RowsInClass(sampled[k].cls), samples_per_class)
        /\ \A j \in 1..Len(sampled) : j # k => sampled[j].cls # sampled[k].cls
    /\ split_pc = "done" =>
        /\ IndexSet(train_df) = FrameRows(train_samples)
        /\ IndexSet(val_df) = FrameRows(val_samples)
        /\ IndexSet(train_df) \cap IndexSet(val_df) = {}
        /\ \A i \in 1..Len(df) :
            /\ Occurrences(train_df, i) <= 1
            /\ Occurrences(val_df, i) <= 1
            /\ Occurrences(train_df, i) + Occurrences(val_df, i) <= 1
        /\ \A out \in {train_df, val_df} : \A k \in 1..Len(out) :
            /\ out[k].index \in 1..Len(df)
            /\ out[k].cls = df[out[k].index]

C12_Witness ==
    /\ split_pc = "done"
    /\ Len(sampled) >= 2
    /\ \E k \in 1..Len(sampled) :
        /\ train_samples[k] # {}
        /\ val_samples[k] # {}
    /\ \E k \in 1..Len(sampled) :
        /\ sampled[k].rows # {}
        /\ Cardinality(sampled[k].rows) < RowsInClass(sampled[k].cls)
    /\ Len(train_df) >= 2
    /\ Len(val_df) >= 1

====
